---- MODULE Spec2Model ----
(***************************************************************************)
(* The enrichment-and-aggregation pipeline of warp-mirror:                 *)
(* WarpcastAPI (src/services/api/warpley.py) and the emotion fallback of   *)
(* NLPProcessor (src/services/nlp/nlp_processor.py).                       *)
(*                                                                         *)
(* Texts and usernames are sequences of one-character strings, so that the *)
(* regular expression, str.startswith, str.lower and the substring test    *)
(* are computed character by character as Python computes them.            *)
(***************************************************************************)
EXTENDS Integers, Sequences, FiniteSets, TLC

\* ------------------------------------------------------------------ bounds
MaxItems == 2     \* casts in one fetched feed
MaxRuns == 2      \* calls of parse_casts / display_casts on one object
MaxSegs == 3      \* segments concatenated into one generated text
MaxChannels == 2  \* channels download_data.py goes through on one database file
MaxPages == 2     \* pages of followers the server returns for one channel
MaxPageLen == 2   \* followers on one page
MaxBatchSize == 2 \* batch_size of fetch_and_insert_followers_in_batches

\* ------------------------------------------------------------- characters
UpperCase == <<"A","B","C","D","E","F","G","H","I","J","K","L","M",
               "N","O","P","Q","R","S","T","U","V","W","X","Y","Z">>
LowerCase == <<"a","b","c","d","e","f","g","h","i","j","k","l","m",
               "n","o","p","q","r","s","t","u","v","w","x","y","z">>
Digits == {"0","1","2","3","4","5","6","7","8","9"}

Range(s) == {s[i] : i \in DOMAIN s}

\* The character class [a-zA-Z0-9_.] of the mention pattern.
IsNameChar(c) ==
    c \in Range(LowerCase) \cup Range(UpperCase) \cup Digits \cup {"_", "."}

\* str.lower() on one character.
LowerChar(c) ==
    IF \E i \in DOMAIN UpperCase : UpperCase[i] = c
    THEN LowerCase[CHOOSE i \in DOMAIN UpperCase : UpperCase[i] = c]
    ELSE c

\* str.lower()
Lower(text) == [i \in DOMAIN text |-> LowerChar(text[i])]

\* str.startswith(prefix)
StartsWith(text, prefix) ==
    /\ Len(prefix) <= Len(text)
    /\ SubSeq(text, 1, Len(prefix)) = prefix

\* needle in text
Contains(text, needle) ==
    \E i \in 1..(Len(text) - Len(needle) + 1) :
        SubSeq(text, i, i + Len(needle) - 1) = needle

callout == <<"c","a","l","l","o","u","t">>

\* End of the maximal run of name characters that starts at position i.
RECURSIVE NameEnd(_, _)
NameEnd(text, i) ==
    IF i + 1 <= Len(text) /\ IsNameChar(text[i + 1])
    THEN NameEnd(text, i + 1)
    ELSE i

\* re.findall(r"@([a-zA-Z0-9_.]+)", text) scanning from position i: the
\* captured names of the leftmost, greedy, non-overlapping matches.
RECURSIVE FindAllFrom(_, _)
FindAllFrom(text, i) ==
    IF i > Len(text) THEN <<>>
    ELSE IF text[i] = "@" /\ i + 1 <= Len(text) /\ IsNameChar(text[i + 1])
         THEN LET e == NameEnd(text, i + 1)
              IN  <<SubSeq(text, i + 1, e)>> \o FindAllFrom(text, e + 1)
         ELSE FindAllFrom(text, i + 1)

FindAll(text) == FindAllFrom(text, 1)


\* ------------------------------------------------------------------ inputs
bob == <<"b","o","b">>
al == <<"a","l">>
cy == <<"c","y">>

\* Authors of the fetched casts. cy only ever occurs as a mention target.
Users == {bob, al}

EngagementKeys == <<"likes", "recasts", "replies", "total">>

\* Engagement maps of the feed; the second one omits "replies".
Engagements ==
    { [likes |-> 3, recasts |-> 1, replies |-> 2, total |-> 6],
      [likes |-> 5, recasts |-> 0, total |-> 5] }

\* "hi", "@bob hi @cy", "yo @al callout"
FeedPosts ==
    { [id |-> 101, displayName |-> "A", timestamp |-> 3000,
       text |-> <<"h","i">>],
      [id |-> 102, displayName |-> "B", timestamp |-> 1000,
       text |-> <<"@","b","o","b"," ","h","i"," ","@","c","y">>],
      [id |-> 103, displayName |-> "A", timestamp |-> 2000,
       text |-> <<"y","o"," ","@","a","l"," ">> \o callout] }

Cast(username, post, engagement) ==
    [id |-> post.id,
     author |-> [username |-> username, displayName |-> post.displayName,
                 profileImage |-> "img"],
     text |-> post.text,
     timestamp |-> post.timestamp,
     engagement |-> engagement]

FeedCasts == {Cast(u, p, e) : u \in Users, p \in FeedPosts, e \in Engagements}

\* Casts that lack a field parse_casts reads: the first has no "text", the
\* author of the second has no "displayName".
MalformedCasts ==
    { [id |-> 104,
       author |-> [username |-> bob, displayName |-> "B",
                   profileImage |-> "img"],
       timestamp |-> 4000,
       engagement |-> [likes |-> 3, recasts |-> 1, replies |-> 2, total |-> 6]],
      [id |-> 105,
       author |-> [username |-> al, profileImage |-> "img"],
       text |-> <<"h","i">>,
       timestamp |-> 5000,
       engagement |-> [likes |-> 3, recasts |-> 1, replies |-> 2, total |-> 6]] }

RECURSIVE SeqsUpTo(_, _)
SeqsUpTo(S, n) ==
    IF n = 0 THEN {<<>>}
    ELSE LET shorter == SeqsUpTo(S, n - 1)
         IN  shorter \cup {Append(q, x) : q \in shorter, x \in S}

\* Pieces the generated texts are concatenated from.
Segments ==
    { <<"@">> \o bob, <<"@","b","o">>, <<"@">> \o al, <<" ">>, <<"@">>,
      <<"b">>, <<"_",".","9">>, callout, <<"C","a","l","l","O","U","T">> }

RECURSIVE Concat(_)
Concat(segs) == IF segs = <<>> THEN <<>> ELSE Head(segs) \o Concat(Tail(segs))

GenTexts == {Concat(segs) : segs \in SeqsUpTo(Segments, MaxSegs)}

TextCasts ==
    { Cast(bob, [id |-> 101, displayName |-> "B", timestamp |-> 1000,
                 text |-> t],
           [likes |-> 3, recasts |-> 1, replies |-> 2, total |-> 6])
      : t \in GenTexts }

FeedUrl == "followerFeed"
TextUrl == "cast"

\* The "casts" lists the endpoint behind url can answer with.
Response(u) ==
    IF u = FeedUrl THEN SeqsUpTo(FeedCasts \cup MalformedCasts, MaxItems)
    ELSE {<<c>> : c \in TextCasts}

\* ----------------------------------------------------------- pure helpers
\* dict.get(key, default)
Get(d, key, default) == IF key \in DOMAIN d THEN d[key] ELSE default

\* d with d[key] = value set (the key is added when absent).
Put(d, key, value) ==
    [k \in DOMAIN d \cup {key} |-> IF k = key THEN value ELSE d[k]]

EmptyDict == [k \in {} |-> 0]

\* detect_emotion without the fallback value: what the classifier gave is
\* passed on as it is.
detect_emotion_no_fallback(classified) == classified

\* NLPProcessor.detect_emotion: the classifier's label, or "unknown" when the
\* classifier raises.
detect_emotion(classified) ==
    IF classified = "error" THEN "unknown" ELSE classified

\* The subscripts of lines 47-55 all find their key.
HasParsedFields(cast) ==
    /\ {"id", "author", "text", "timestamp", "engagement"} \subseteq DOMAIN cast
    /\ {"username", "displayName", "profileImage"} \subseteq DOMAIN cast.author

\* The parsed_cast dictionary of parse_casts. The sentiment and topics
\* values are not kept: no accumulator reads them.
parsed_cast(cast, emotion) ==
    [id |-> cast.id,
     author |-> [username |-> cast.author.username,
                 displayName |-> cast.author.displayName,
                 profileImage |-> cast.author.profileImage],
     text |-> cast.text,
     timestamp |-> cast.timestamp,
     engagement |-> cast.engagement,
     emotion |-> emotion]

\* save_to_user_database without the "not in" test: the profile is created
\* anew on every cast.
save_to_user_database_recreates(db, cast) ==
    LET username == cast.author.username
    IN  Put(db, username,
            [fid |-> cast.id,
             name |-> username,
             display_name |-> cast.author.displayName,
             msg_count |-> 1,
             messages |-> <<cast.text>>])

\* save_to_user_database made idempotent: a text the profile already holds
\* is not appended again.
save_to_user_database_once(db, cast) ==
    LET username == cast.author.username
        created == IF username \notin DOMAIN db
                   THEN Put(db, username,
                            [fid |-> cast.id,
                             name |-> username,
                             display_name |-> cast.author.displayName,
                             msg_count |-> 0,
                             messages |-> <<>>])
                   ELSE db
        profile == created[username]
    IN  IF cast.text \in Range(profile.messages)
        THEN created
        ELSE Put(created, username,
                 [profile EXCEPT !.messages = Append(@, cast.text),
                                 !.msg_count = @ + 1])

\* save_to_user_database that refreshes fid and display_name from every
\* cast of the user.
save_to_user_database_refreshes(db, cast) ==
    LET username == cast.author.username
        profile == IF username \in DOMAIN db THEN db[username]
                   ELSE [fid |-> cast.id,
                         name |-> username,
                         display_name |-> cast.author.displayName,
                         msg_count |-> 0,
                         messages |-> <<>>]
    IN  Put(db, username,
            [profile EXCEPT !.fid = cast.id,
                            !.display_name = cast.author.displayName,
                            !.messages = Append(@, cast.text),
                            !.msg_count = @ + 1])

\* A profile for every name the text mentions that has none yet.
RECURSIVE with_mentioned(_, _, _)
with_mentioned(db, cast, names) ==
    IF names = <<>> THEN db
    ELSE with_mentioned(
             IF Head(names) \in DOMAIN db THEN db
             ELSE Put(db, Head(names),
                      [fid |-> cast.id,
                       name |-> Head(names),
                       display_name |-> "",
                       msg_count |-> 0,
                       messages |-> <<>>]),
             cast, Tail(names))

\* save_to_user_database that also registers the mentioned users.
save_to_user_database_with_mentions(db, cast) ==
    LET username == cast.author.username
        created == IF username \notin DOMAIN db
                   THEN Put(db, username,
                            [fid |-> cast.id,
                             name |-> username,
                             display_name |-> cast.author.displayName,
                             msg_count |-> 0,
                             messages |-> <<>>])
                   ELSE db
        profile == created[username]
    IN  with_mentioned(
            Put(created, username,
                [profile EXCEPT !.messages = Append(@, cast.text),
                                !.msg_count = @ + 1]),
            cast, FindAll(cast.text))

\* WarpcastAPI.save_to_user_database: the user database afterwards.
save_to_user_database(db, cast) ==
    LET username == cast.author.username
        created == IF username \notin DOMAIN db
                   THEN Put(db, username,
                            [fid |-> cast.id,
                             name |-> username,
                             display_name |-> cast.author.displayName,
                             msg_count |-> 0,
                             messages |-> <<>>])
                   ELSE db
        profile == created[username]
    IN  Put(created, username,
            [profile EXCEPT !.messages = Append(@, cast.text),
                            !.msg_count = @ + 1])

\* The chain with the callout test ahead of the reply test.
relationship_type_callout_first(text, mentioned_user) ==
    IF Contains(Lower(text), callout) THEN "callout"
    ELSE IF StartsWith(text, <<"@">> \o mentioned_user) THEN "reply"
    ELSE "mention"

\* The chain with the callout test on the text as written, not lowered.
relationship_type_case_sensitive(text, mentioned_user) ==
    IF StartsWith(text, <<"@">> \o mentioned_user) THEN "reply"
    ELSE IF Contains(text, callout) THEN "callout"
    ELSE "mention"

\* The if / elif chain of process_edge_relationships.
relationship_type(text, mentioned_user) ==
    IF StartsWith(text, <<"@">> \o mentioned_user) THEN "reply"
    ELSE IF Contains(Lower(text), callout) THEN "callout"
    ELSE "mention"

\* mentions with every repetition of a name dropped.
RECURSIVE Dedup(_)
Dedup(names) ==
    IF names = <<>> THEN <<>>
    ELSE LET front == Dedup(SubSeq(names, 1, Len(names) - 1))
             last == names[Len(names)]
         IN  IF \E i \in DOMAIN front : front[i] = last
             THEN front ELSE Append(front, last)

\* process_edge_relationships over the distinct mentioned names only.
new_edges_dedup(cast) ==
    LET mentions == Dedup(FindAll(cast.text))
    IN  [j \in DOMAIN mentions |->
            [timestamp |-> cast.timestamp,
             from |-> cast.author.username,
             to |-> mentions[j],
             type |-> relationship_type(cast.text, mentions[j])]]

\* process_edge_relationships with the reply test applied to the position
\* of the occurrence: only an occurrence at the start of the text replies.
new_edges_reply_by_position(cast) ==
    LET mentions == FindAll(cast.text)
    IN  [j \in DOMAIN mentions |->
            [timestamp |-> cast.timestamp,
             from |-> cast.author.username,
             to |-> mentions[j],
             type |-> IF j = 1 /\ StartsWith(cast.text, <<"@">> \o mentions[j])
                      THEN "reply"
                      ELSE IF Contains(Lower(cast.text), callout)
                           THEN "callout" ELSE "mention"]]

\* WarpcastAPI.process_edge_relationships: the edges it appends.
new_edges(cast) ==
    LET mentions == FindAll(cast.text)
    IN  [j \in DOMAIN mentions |->
            [timestamp |-> cast.timestamp,
             from |-> cast.author.username,
             to |-> mentions[j],
             type |-> relationship_type(cast.text, mentions[j])]]

\* process_edge_relationships that puts the new edges in front.
process_edge_relationships_prepends(edges, cast) == new_edges(cast) \o edges

process_edge_relationships(edges, cast) == edges \o new_edges(cast)

ZeroEngagement == [likes |-> 0, recasts |-> 0, replies |-> 0, total |-> 0]

\* track_engagement with "=" in place of "+=".
track_engagement_overwrites(metrics, cast) ==
    Put(metrics, cast.author.username,
        [key \in Range(EngagementKeys) |-> Get(cast.engagement, key, 0)])

\* track_engagement that gives up on a record as soon as a key is absent.
track_engagement_requires_keys(metrics, cast) ==
    LET username == cast.author.username
        before == Get(metrics, username, ZeroEngagement)
    IN  IF Range(EngagementKeys) \subseteq DOMAIN cast.engagement
        THEN Put(metrics, username,
                 [key \in Range(EngagementKeys) |->
                     before[key] + cast.engagement[key]])
        ELSE Put(metrics, username, before)

\* track_engagement with "-=" in place of "+=".
track_engagement_subtracts(metrics, cast) ==
    LET username == cast.author.username
        before == Get(metrics, username, ZeroEngagement)
    IN  Put(metrics, username,
            [key \in Range(EngagementKeys) |->
                before[key] - Get(cast.engagement, key, 0)])

\* WarpcastAPI.track_engagement: the engagement metrics afterwards. The
\* defaultdict creates the zero entry on the first access of a username.
track_engagement(metrics, cast) ==
    LET username == cast.author.username
        before == Get(metrics, username, ZeroEngagement)
    IN  Put(metrics, username,
            [key \in Range(EngagementKeys) |->
                before[key] + Get(cast.engagement, key, 0)])

\* ------------------------------------------------------------------- state
VARIABLES
    url,                 \* self.url
    data,                \* self.data
    user_database,       \* self.user_database
    edge_database,       \* self.edge_database
    engagement_metrics,  \* self.engagement_metrics
    parsed_data,         \* parse_casts' local list
    pc,                  \* where the caller / parse_casts stands
    idx,                 \* 1-based position of the for loop in self.data
    call,                \* the method running: parse_casts or display_casts
    runs,                \* calls of parse_casts started on this object
    error,               \* the exception that ended the current call
    trace,               \* steps taken in the current run, <<step, item>>
    emotion_failed       \* items of the current run whose classifier raised

\* The state of download_data.py: the SQLite file, the position of
\* fetch_and_insert_followers_in_batches and of get_channel_followers, and
\* what the Warpcast server has handed out.
VARIABLES
    channels,            \* table channels: id -> row
    followers_tables,    \* tables followers_<channel_id>: fid -> followedAt
    dpc,                 \* where the script stands
    visited,             \* channels the script has gone through on this file
    channel_id,          \* channel_id of fetch_and_insert_followers_in_batches
    batch_size,          \* its batch_size
    cursor,              \* its cursor
    batch,               \* its batch
    page,                \* what get_channel_followers returned last
    attempt,             \* attempt of get_channel_followers
    requests,            \* requests.get calls of the current get_channel_followers
    slept,               \* time.sleep calls of the current get_channel_followers
    served,              \* followers the server has returned in this fetch
    pages,               \* pages the server has returned in this fetch
    inserted             \* batches given to insert_followers_batch in this fetch

dvars == <<channels, followers_tables, dpc, visited, channel_id, batch_size, cursor,
           batch, page, attempt, requests, slept, served, pages, inserted>>

wvars == <<url, data, user_database, edge_database, engagement_metrics,
           parsed_data, pc, idx, call, runs, error, trace, emotion_failed>>

vars == <<wvars, dvars>>

EmotionLabels == {"joy"}

\* WarpcastAPI.__init__
Constructed ==
    /\ data = <<>>
    /\ user_database = EmptyDict
    /\ edge_database = <<>>
    /\ engagement_metrics = EmptyDict
    /\ parsed_data = <<>>
    /\ pc = "idle"
    /\ idx = 1
    /\ call = "none"
    /\ runs = 0
    /\ error = "none"
    /\ trace = <<>>
    /\ emotion_failed = {}

\* download_data.py before its first statement; main.py never runs it.
NoDownload ==
    /\ channels = EmptyDict
    /\ followers_tables = EmptyDict
    /\ dpc = "idle"
    /\ visited = 0
    /\ channel_id = "none"
    /\ batch_size = 0
    /\ cursor = 0
    /\ batch = <<>>
    /\ page = [followers |-> <<>>, next_cursor |-> 0]
    /\ attempt = 0
    /\ requests = 0
    /\ slept = <<>>
    /\ served = <<>>
    /\ pages = 0
    /\ inserted = <<>>

Init == url = FeedUrl /\ Constructed /\ NoDownload

InitText == url = TextUrl /\ Constructed /\ NoDownload

\* WarpcastAPI.fetch_data, called once before the first run as main.py does.
\* On a request error self.data stays as it is.
FetchData ==
    /\ pc = "idle" /\ runs = 0 /\ data = <<>>
    /\ data' \in Response(url) \cup {data}
    /\ UNCHANGED <<url, user_database, edge_database, engagement_metrics,
                   parsed_data, pc, idx, call, runs, error, trace,
                   emotion_failed>>
    /\ UNCHANGED dvars

\* Where the for loop of parse_casts goes when it looks for item i.
LoopAt(i, method) ==
    IF i <= Len(data) THEN "normalize"
    ELSE IF method = "display_casts" THEN "display" ELSE "returned"

\* A call of parse_casts, directly or by display_casts. A caller whose call
\* raised makes no further call on the object.
StartRun ==
    /\ pc \in {"idle", "returned"}
    /\ runs < MaxRuns
    /\ \E method \in {"parse_casts", "display_casts"} :
        /\ call' = method
        /\ pc' = LoopAt(1, method)
    /\ runs' = runs + 1
    /\ parsed_data' = <<>>
    /\ idx' = 1
    /\ trace' = <<>>
    /\ emotion_failed' = {}
    /\ UNCHANGED <<url, data, user_database, edge_database,
                   engagement_metrics, error>>
    /\ UNCHANGED dvars

\* The exception lines 42-60 end with, "none" when the parsed_cast
\* dictionary gets built: cast["text"] of line 42 comes first, then the
\* oracle calls in their order, then the subscripts of lines 47-55.
normalize_error(cast, sentiment, topics) ==
    IF "text" \notin DOMAIN cast THEN "KeyError"
    ELSE IF sentiment = "error" THEN "sentiment"
    ELSE IF topics = "error" THEN "topics"
    ELSE IF ~HasParsedFields(cast) THEN "KeyError"
    ELSE "none"

\* Lines 42-61 inside a try / except that goes on with the next item: a
\* cast that cannot be normalized is skipped.
Normalize_skips ==
    /\ pc = "normalize"
    /\ \E sentiment \in {"ok", "error"}, topics \in {"ok", "error"},
          classified \in EmotionLabels \cup {"error"} :
        LET raised == normalize_error(data[idx], sentiment, topics)
        IN  /\ emotion_failed' =
                  IF /\ "text" \in DOMAIN data[idx]
                     /\ sentiment = "ok" /\ classified = "error"
                  THEN emotion_failed \cup {idx} ELSE emotion_failed
            /\ IF raised # "none"
               THEN /\ pc' = LoopAt(idx + 1, call)
                    /\ idx' = idx + 1
                    /\ UNCHANGED <<parsed_data, error, trace>>
               ELSE /\ pc' = "save"
                    /\ error' = error
                    /\ idx' = idx
                    /\ parsed_data' =
                          Append(parsed_data,
                                 parsed_cast(data[idx],
                                             detect_emotion(classified)))
                    /\ trace' = Append(trace, <<"normalize", idx>>)
    /\ UNCHANGED <<url, data, user_database, edge_database,
                   engagement_metrics, call, runs>>
    /\ UNCHANGED dvars

\* Lines 42-61 of parse_casts for item idx: the three oracle calls, the
\* parsed_cast dictionary, parsed_data.append. sentiment and topics say
\* whether analyze_sentiment / extract_topics raise; classified is what the
\* emotion classifier does. An exception leaves parse_casts.
Normalize ==
    /\ pc = "normalize"
    /\ \E sentiment \in {"ok", "error"}, topics \in {"ok", "error"},
          classified \in EmotionLabels \cup {"error"} :
        LET raised == normalize_error(data[idx], sentiment, topics)
        IN  /\ emotion_failed' =
                  IF /\ "text" \in DOMAIN data[idx]
                     /\ sentiment = "ok" /\ classified = "error"
                  THEN emotion_failed \cup {idx} ELSE emotion_failed
            /\ IF raised # "none"
               THEN /\ pc' = "raised"
                    /\ error' = raised
                    /\ UNCHANGED <<parsed_data, idx, trace>>
               ELSE /\ pc' = "save"
                    /\ error' = error
                    /\ idx' = idx
                    /\ parsed_data' =
                          Append(parsed_data,
                                 parsed_cast(data[idx],
                                             detect_emotion(classified)))
                    /\ trace' = Append(trace, <<"normalize", idx>>)
    /\ UNCHANGED <<url, data, user_database, edge_database,
                   engagement_metrics, call, runs>>
    /\ UNCHANGED dvars

\* Line 62 with line 63 left out: track_engagement follows directly.
SaveToUserDatabase_then_track ==
    /\ pc = "save"
    /\ user_database' = save_to_user_database(user_database, parsed_data[idx])
    /\ pc' = "engage"
    /\ trace' = Append(trace, <<"save_to_user_database", idx>>)
    /\ UNCHANGED <<url, data, edge_database, engagement_metrics, parsed_data,
                   idx, call, runs, error, emotion_failed>>
    /\ UNCHANGED dvars

\* Line 62.
SaveToUserDatabase ==
    /\ pc = "save"
    /\ user_database' = save_to_user_database(user_database, parsed_data[idx])
    /\ pc' = "edges"
    /\ trace' = Append(trace, <<"save_to_user_database", idx>>)
    /\ UNCHANGED <<url, data, edge_database, engagement_metrics, parsed_data,
                   idx, call, runs, error, emotion_failed>>
    /\ UNCHANGED dvars

\* Line 63 with a process_edge_relationships that also gives every
\* mentioned user a profile.
ProcessEdgeRelationships_registers ==
    /\ pc = "edges"
    /\ edge_database' =
          process_edge_relationships(edge_database, parsed_data[idx])
    /\ user_database' =
          with_mentioned(user_database, parsed_data[idx],
                         FindAll(parsed_data[idx].text))
    /\ pc' = "engage"
    /\ trace' = Append(trace, <<"process_edge_relationships", idx>>)
    /\ UNCHANGED <<url, data, engagement_metrics, parsed_data,
                   idx, call, runs, error, emotion_failed>>
    /\ UNCHANGED dvars

\* Line 63.
ProcessEdgeRelationships ==
    /\ pc = "edges"
    /\ edge_database' =
          process_edge_relationships(edge_database, parsed_data[idx])
    /\ pc' = "engage"
    /\ trace' = Append(trace, <<"process_edge_relationships", idx>>)
    /\ UNCHANGED <<url, data, user_database, engagement_metrics, parsed_data,
                   idx, call, runs, error, emotion_failed>>
    /\ UNCHANGED dvars

\* Line 64, and the for loop moving on (or parse_casts returning).
TrackEngagement ==
    /\ pc = "engage"
    /\ engagement_metrics' =
          track_engagement(engagement_metrics, parsed_data[idx])
    /\ idx' = idx + 1
    /\ pc' = LoopAt(idx + 1, call)
    /\ trace' = Append(trace, <<"track_engagement", idx>>)
    /\ UNCHANGED <<url, data, user_database, edge_database, parsed_data,
                   call, runs, error, emotion_failed>>
    /\ UNCHANGED dvars

\* The print loop of display_casts over the list parse_casts returned:
\* cast['engagement'][key] raises KeyError on a missing key.
DisplayCasts ==
    /\ pc = "display"
    /\ IF \A i \in DOMAIN parsed_data :
             Range(EngagementKeys) \subseteq DOMAIN parsed_data[i].engagement
       THEN pc' = "returned" /\ error' = error
       ELSE pc' = "raised" /\ error' = "KeyError"
    /\ UNCHANGED <<url, data, user_database, edge_database,
                   engagement_metrics, parsed_data, idx, call, runs, trace,
                   emotion_failed>>
    /\ UNCHANGED dvars

Next ==
    \/ FetchData
    \/ StartRun
    \/ Normalize
    \/ SaveToUserDatabase
    \/ ProcessEdgeRelationships
    \/ TrackEngagement
    \/ DisplayCasts

Spec == Init /\ [][Next]_vars

SpecText == InitText /\ [][Next]_vars

\* ------------------------------------------------------------------ claims
\* Items of the current run that save_to_user_database has handled.
SavedItems == IF pc \in {"edges", "engage"} THEN idx ELSE idx - 1

\* Items of the current run that track_engagement has handled.
TrackedItems == idx - 1

\* Positions among the first n casts of data whose author is u.
AuthoredBy(u, n) == {i \in 1..n : data[i].author.username = u}

\* Texts of the first n casts of data whose author is u, in input order.
RECURSIVE TextsBy(_, _)
TextsBy(u, n) ==
    IF n = 0 THEN <<>>
    ELSE IF data[n].author.username = u
         THEN Append(TextsBy(u, n - 1), data[n].text)
         ELSE TextsBy(u, n - 1)

\* C1: during the first run on a fresh object, for every username of the
\* user registry the messages are the texts of the casts handled so far
\* that this username authored, in arrival order, and msg_count is their
\* number.
C1_MessagesMatchProcessed ==
    runs <= 1 =>
        \A u \in DOMAIN user_database :
            /\ user_database[u].messages = TextsBy(u, SavedItems)
            /\ user_database[u].msg_count = Len(user_database[u].messages)
            /\ user_database[u].msg_count = Cardinality(AuthoredBy(u, SavedItems))

\* Two casts of one author have been saved, in the first run.
C1_Witness ==
    /\ runs = 1 /\ pc = "returned" /\ Len(data) = 2
    /\ \E u \in DOMAIN user_database :
        /\ user_database[u].msg_count = 2
        /\ user_database[u].messages = <<data[1].text, data[2].text>>
        /\ data[1].text # data[2].text

\* Occurrences of the mention pattern in text: every "@" that is followed
\* by a name character starts exactly one.
MentionStarts(text) ==
    {i \in 1..(Len(text) - 1) : text[i] = "@" /\ IsNameChar(text[i + 1])}

\* The text begins with a mention token.
StartsWithMention(text) == 1 \in MentionStarts(text)

\* The text contains "callout" in any letter case.
HasCallout(text) ==
    \E i \in 1..(Len(text) - 6) :
        \A j \in 1..7 : LowerChar(text[i + j - 1]) = callout[j]

\* The edges the step in progress appended to the edge list.
AppendedEdges == SubSeq(edge_database', Len(edge_database) + 1, Len(edge_database'))

\* The cast process_edge_relationships is handling.
CurrentCast == parsed_data[idx]

IsPrefix(p, s) == Len(p) <= Len(s) /\ \A i \in DOMAIN p : p[i] = s[i]

\* C2: process_edge_relationships on a text with k occurrences of the
\* mention pattern appends exactly k edges, all with "from" the author of
\* the cast; repeated names are not merged and k = 0 appends nothing.
C2_EdgePerOccurrence ==
    [][pc = "edges" =>
        /\ Len(edge_database') =
              Len(edge_database) + Cardinality(MentionStarts(CurrentCast.text))
        /\ SubSeq(edge_database', 1, Len(edge_database)) = edge_database
        /\ \A j \in DOMAIN AppendedEdges :
              AppendedEdges[j].from = CurrentCast.author.username]_vars

\* A text that mentions the same name twice gave two edges.
C2_Witness ==
    /\ pc = "engage" /\ runs = 1
    /\ Cardinality(MentionStarts(CurrentCast.text)) = 2
    /\ Len(edge_database) = 2
    /\ edge_database[1].to = edge_database[2].to
    /\ edge_database[1].from = CurrentCast.author.username

\* C3: an occurrence whose token "@name" is the leading characters of the
\* text gives an edge of type "reply", also when the text contains
\* "callout" in any letter case.
C3_ReplyBeforeCallout ==
    [][pc = "edges" =>
        /\ \A j \in DOMAIN AppendedEdges :
              IsPrefix(<<"@">> \o AppendedEdges[j].to, CurrentCast.text)
                  => AppendedEdges[j].type = "reply"
        /\ StartsWithMention(CurrentCast.text)
              => AppendedEdges[1].type = "reply"]_vars

\* A text that starts with a mention and contains "callout" gave a reply.
C3_Witness ==
    /\ pc = "engage" /\ runs = 1
    /\ StartsWithMention(CurrentCast.text)
    /\ HasCallout(CurrentCast.text)
    /\ Len(edge_database) >= 1
    /\ edge_database[1].type = "reply"

\* C4: when the text does not start with a mention token, all edges of the
\* text have one type: "callout" when the text contains "callout" in any
\* letter case, "mention" otherwise.
C4_NoLeadingMention ==
    [][pc = "edges" /\ ~StartsWithMention(CurrentCast.text) =>
        \A j \in DOMAIN AppendedEdges :
            AppendedEdges[j].type =
                IF HasCallout(CurrentCast.text) THEN "callout" ELSE "mention"]_vars

\* A text without leading mention, with "callout" not in lower case, gave
\* two callout edges.
C4_Witness ==
    /\ pc = "engage" /\ runs = 1
    /\ ~StartsWithMention(CurrentCast.text)
    /\ HasCallout(CurrentCast.text) /\ ~Contains(CurrentCast.text, callout)
    /\ Len(edge_database) = 2
    /\ \A j \in 1..2 : edge_database[j].type = "callout"

\* C5 as stated: in a text with "callout" and several occurrences every
\* edge is "callout", except that a leading mention makes the first edge,
\* and only the first, a "reply".
C5_OnlyFirstIsReply ==
    [][pc = "edges" /\ HasCallout(CurrentCast.text)
         /\ Cardinality(MentionStarts(CurrentCast.text)) >= 2 =>
        \A j \in DOMAIN AppendedEdges :
            AppendedEdges[j].type =
                IF j = 1 /\ StartsWithMention(CurrentCast.text)
                THEN "reply" ELSE "callout"]_vars

\* C5 amended: in a text with "callout" and several occurrences every edge
\* is "callout", except that when the text starts with a mention the edge
\* of the first occurrence is a "reply", and so is the edge of every later
\* occurrence whose name is the first name or a leading part of it.
C5_ReplyForLeadingName ==
    [][pc = "edges" /\ HasCallout(CurrentCast.text)
         /\ Cardinality(MentionStarts(CurrentCast.text)) >= 2 =>
        \A j \in DOMAIN AppendedEdges :
            AppendedEdges[j].type =
                IF /\ StartsWithMention(CurrentCast.text)
                   /\ IsPrefix(AppendedEdges[j].to, AppendedEdges[1].to)
                THEN "reply" ELSE "callout"]_vars

\* A text with "callout" that starts with a mention and has a leading part
\* of that name as a later mention: both edges are replies.
C5_Witness ==
    /\ pc = "engage" /\ runs = 1
    /\ HasCallout(CurrentCast.text)
    /\ StartsWithMention(CurrentCast.text)
    /\ Len(edge_database) = 2
    /\ edge_database[1].type = "reply"
    /\ edge_database[2].type = "reply"
    /\ edge_database[2].to # edge_database[1].to

\* Sum of one engagement counter over the casts of data at the positions S;
\* a cast without the counter adds 0.
RECURSIVE CounterSum(_, _)
CounterSum(S, key) ==
    IF S = {} THEN 0
    ELSE LET i == CHOOSE i \in S : TRUE
         IN  (IF key \in DOMAIN data[i].engagement
              THEN data[i].engagement[key] ELSE 0)
             + CounterSum(S \ {i}, key)

\* C6: in the first run on a fresh object, each of the four aggregated
\* counters of every username is the sum of that counter over the casts
\* of that username handled so far (all of them when the run returns),
\* each added once, whatever their order.
C6_TotalsAreSums ==
    runs <= 1 =>
        /\ \A u \in DOMAIN engagement_metrics :
              \A key \in Range(EngagementKeys) :
                  engagement_metrics[u][key] =
                      CounterSum(AuthoredBy(u, TrackedItems), key)
        /\ \A i \in 1..TrackedItems :
              data[i].author.username \in DOMAIN engagement_metrics

\* Two casts of one author with likes 3 and 5 gave likes 8.
C6_Witness ==
    /\ runs = 1 /\ pc = "returned" /\ Len(data) = 2
    /\ data[1].engagement.likes = 3 /\ data[2].engagement.likes = 5
    /\ data[1].author.username = data[2].author.username
    /\ engagement_metrics[data[1].author.username].likes = 8

\* The engagement totals of username u, zero when u has none yet.
TotalsOf(metrics, u) ==
    IF u \in DOMAIN metrics THEN metrics[u]
    ELSE [key \in Range(EngagementKeys) |-> 0]

\* C7: track_engagement on a record that omits an engagement key adds 0 to
\* that counter and raises nothing; the counters of the keys present grow
\* by their values.
C7_MissingKeyAddsZero ==
    [][pc = "engage" =>
        LET u == CurrentCast.author.username
            engagement == CurrentCast.engagement
        IN  /\ pc' \in {"normalize", "display", "returned"}
            /\ error' = error
            /\ \A key \in Range(EngagementKeys) :
                  engagement_metrics'[u][key] =
                      TotalsOf(engagement_metrics, u)[key]
                      + (IF key \in DOMAIN engagement
                         THEN engagement[key] ELSE 0)]_vars

\* A record without "replies" was tracked after one with it: replies stayed,
\* likes grew by the record's 5.
C7_Witness ==
    /\ runs = 1 /\ pc = "returned" /\ Len(data) = 2
    /\ data[1].author.username = data[2].author.username
    /\ "replies" \in DOMAIN data[1].engagement
    /\ "replies" \notin DOMAIN data[2].engagement
    /\ engagement_metrics[data[1].author.username].replies = 2
    /\ engagement_metrics[data[1].author.username].likes = 8

StepNames == <<"normalize", "save_to_user_database",
               "process_edge_relationships", "track_engagement">>

\* The steps of a run over n items: the four steps of item 1, then the four
\* of item 2, and so on.
ExpectedTrace(n) == [k \in 1..(4 * n) |-> <<StepNames[((k - 1) % 4) + 1], ((k - 1) \div 4) + 1>>]

\* Steps of the current run that lie behind the control position.
StepsDone ==
    4 * (idx - 1) + (CASE pc = "save" -> 1
                       [] pc = "edges" -> 2
                       [] pc = "engage" -> 3
                       [] OTHER -> 0)

\* C8: within a run the steps taken are, item by item in input order,
\* normalize, save_to_user_database, process_edge_relationships,
\* track_engagement, each once per item, all four of an item before any
\* step of the next; a run that returns has taken them for every item.
C8_StepOrder ==
    /\ Len(trace) = StepsDone
    /\ trace = SubSeq(ExpectedTrace(Len(data)), 1, Len(trace))
    /\ pc \in {"returned", "display"} => trace = ExpectedTrace(Len(data))

\* A run over two items has returned.
C8_Witness ==
    /\ pc = "returned" /\ Len(data) = 2 /\ Len(trace) = 8
    /\ trace[4] = <<"track_engagement", 1>> /\ trace[5] = <<"normalize", 2>>

\* C9 as stated: the totals and message counts a run of parse_casts leaves
\* are the per-user sums and counts over exactly the items of that run,
\* also when a run was made before on the same object.
C9_RunStartsAtZero ==
    pc = "returned" =>
        /\ \A u \in DOMAIN engagement_metrics :
              \A key \in Range(EngagementKeys) :
                  engagement_metrics[u][key] =
                      CounterSum(AuthoredBy(u, Len(data)), key)
        /\ \A u \in DOMAIN user_database :
              user_database[u].msg_count = Cardinality(AuthoredBy(u, Len(data)))

\* C10: an item whose emotion classifier raised gets the emotion "unknown"
\* and no exception; unless topic extraction raised for that same item or
\* the item lacks a field, it goes through all three accumulators, and a
\* run that returns has handled the items after it too.
C10_EmotionFallback ==
    \A i \in emotion_failed :
        IF i <= Len(parsed_data)
        THEN /\ parsed_data[i].emotion = "unknown"
             /\ i < idx \/ pc \in {"save", "edges", "engage"}
             /\ i < idx =>
                   \A s \in 2..4 : \E k \in DOMAIN trace : trace[k] = <<StepNames[s], i>>
             /\ pc \in {"returned", "display"} =>
                   \A j \in i..Len(data) : \A s \in 1..4 :
                       \E k \in DOMAIN trace : trace[k] = <<StepNames[s], j>>
        ELSE pc = "raised" /\ error \in {"topics", "KeyError"} /\ idx = i

\* The classifier raised on item 1 of 2; the run returned with both items
\* handled.
C10_Witness ==
    /\ pc = "returned" /\ Len(data) = 2 /\ emotion_failed = {1}
    /\ parsed_data[1].emotion = "unknown" /\ parsed_data[2].emotion # "unknown"
    /\ Len(trace) = 8
    /\ Len(user_database[data[1].author.username].messages) >= 1

\* The three accumulators after the first n casts of data went through
\* them, starting from the empty accumulators of a fresh object.
RECURSIVE RegistryAfter(_)
RegistryAfter(n) ==
    IF n = 0 THEN EmptyDict
    ELSE save_to_user_database(RegistryAfter(n - 1), data[n])

RECURSIVE EdgesAfter(_)
EdgesAfter(n) ==
    IF n = 0 THEN <<>>
    ELSE process_edge_relationships(EdgesAfter(n - 1), data[n])

RECURSIVE TotalsAfter(_)
TotalsAfter(n) ==
    IF n = 0 THEN EmptyDict
    ELSE track_engagement(TotalsAfter(n - 1), data[n])

\* C11: when normalization of item i fails for another reason than emotion
\* detection (sentiment or topic extraction raises, a field is missing),
\* parse_casts ends with that exception at item i: no step is taken for
\* item i or a later one, nothing is skipped, and in the first run on a
\* fresh object the three accumulators hold the result of items 1..i-1.
C11_FailFast ==
    /\ \A i \in 1..Len(data) :
          ~HasParsedFields(data[i]) =>
              /\ idx <= i
              /\ pc \notin {"returned", "display"}
              /\ \A k \in DOMAIN trace : trace[k][2] < i
    /\ pc = "raised" /\ idx <= Len(data) =>
          /\ error \in {"sentiment", "topics", "KeyError"}
          /\ trace = ExpectedTrace(idx - 1)
          /\ Len(parsed_data) = idx - 1
          /\ runs <= 1 =>
                /\ user_database = RegistryAfter(idx - 1)
                /\ edge_database = EdgesAfter(idx - 1)
                /\ engagement_metrics = TotalsAfter(idx - 1)

\* Item 2 of 2 has no displayName: parse_casts raised there, with item 1 in
\* the accumulators.
C11_Witness ==
    /\ pc = "raised" /\ idx = 2 /\ Len(data) = 2 /\ error = "KeyError"
    /\ "text" \in DOMAIN data[2]
    /\ DOMAIN user_database = {data[1].author.username}
    /\ user_database[data[1].author.username].msg_count = 1
    /\ Len(edge_database) = 2

\* C12: every engagement counter of every user is a non-negative integer
\* in every state, and no step of a run lowers a counter or drops a user.
\* The engagement values of the feed are counts, none below zero.
C12_CountersMonotone ==
    [][/\ DOMAIN engagement_metrics \subseteq DOMAIN engagement_metrics'
       /\ \A u \in DOMAIN engagement_metrics' :
             \A key \in Range(EngagementKeys) :
                 /\ engagement_metrics'[u][key] \in Nat
                 /\ engagement_metrics'[u][key] >=
                       TotalsOf(engagement_metrics, u)[key]]_vars

\* Two casts of one author were tracked: likes rose from 5 to 8, replies
\* stayed at 0 and then rose to 2.
C12_Witness ==
    /\ runs = 1 /\ pc = "returned" /\ Len(data) = 2
    /\ data[1].author.username = data[2].author.username
    /\ data[1].engagement.likes = 5 /\ data[2].engagement.likes = 3
    /\ engagement_metrics[data[1].author.username].likes = 8
    /\ engagement_metrics[data[1].author.username].replies = 2

\* The cast save_to_user_database is about to get was submitted to it
\* before: earlier in this run as an equal cast of the feed, or in an
\* earlier run over the same feed.
SubmittedBefore ==
    \/ runs >= 2
    \/ \E j \in 1..(idx - 1) : data[j] = data[idx]

\* C13: save_to_user_database is not idempotent. A record submitted again
\* has its text appended once more and msg_count raised by one (to 2 on
\* the second submission); the profile is not created again, its fid and
\* display name stay.
C13_ResubmissionCounts ==
    [][pc = "save" /\ SubmittedBefore =>
        LET u == CurrentCast.author.username
        IN  /\ u \in DOMAIN user_database
            /\ DOMAIN user_database' = DOMAIN user_database
            /\ user_database'[u].messages =
                  Append(user_database[u].messages, CurrentCast.text)
            /\ user_database'[u].msg_count = user_database[u].msg_count + 1
            /\ user_database[u].msg_count = 1
                  => user_database'[u].msg_count = 2
            /\ user_database'[u].fid = user_database[u].fid
            /\ user_database'[u].display_name = user_database[u].display_name
            /\ user_database'[u].name = user_database[u].name
            /\ \A v \in DOMAIN user_database \ {u} :
                  user_database'[v] = user_database[v]]_vars

\* The feed holds the same cast twice; after the second submission the
\* profile counts 2 messages, twice the same text.
C13_Witness ==
    /\ runs = 1 /\ pc = "edges" /\ idx = 2 /\ data[1] = data[2]
    /\ user_database[data[1].author.username].msg_count = 2
    /\ user_database[data[1].author.username].messages =
          <<data[1].text, data[1].text>>
    /\ user_database[data[1].author.username].fid = data[1].id

\* Casts of data that save_to_user_database has had since construction:
\* those of the current run, and the whole feed once a run has returned.
EverSaved == IF runs <= 1 THEN SavedItems ELSE Len(data)

\* Position of the first cast of u among the first n casts of data.
FirstBy(u, n) ==
    CHOOSE i \in AuthoredBy(u, n) : \A j \in AuthoredBy(u, n) : i <= j

\* Every profile carries the id and the display name of the first cast of
\* its user.
ProfilesFromFirstCast ==
    \A u \in DOMAIN user_database :
        /\ AuthoredBy(u, EverSaved) # {}
        /\ user_database[u].fid = data[FirstBy(u, EverSaved)].id
        /\ user_database[u].display_name =
              data[FirstBy(u, EverSaved)].author.displayName

\* C14: a profile's fid is the id, and its display name the display name, of
\* the first processed cast of that username; no later step changes either,
\* also not a later cast of the user with another id or display name, and
\* no step removes a profile.
C14_ProfileFromFirstCast ==
    [][/\ ProfilesFromFirstCast'
       /\ \A u \in DOMAIN user_database :
             /\ u \in DOMAIN user_database'
             /\ user_database'[u].fid = user_database[u].fid
             /\ user_database'[u].display_name =
                   user_database[u].display_name]_vars

\* Two casts of one user with different ids and display names: the profile
\* has those of the first.
C14_Witness ==
    /\ runs = 1 /\ pc = "returned" /\ Len(data) = 2
    /\ data[1].author.username = data[2].author.username
    /\ data[1].id # data[2].id
    /\ data[1].author.displayName # data[2].author.displayName
    /\ user_database[data[1].author.username].fid = data[1].id
    /\ user_database[data[1].author.username].display_name =
          data[1].author.displayName
    /\ user_database[data[1].author.username].msg_count = 2

\* Casts of data that track_engagement has had since construction.
EverTracked == IF runs <= 1 THEN TrackedItems ELSE Len(data)

\* C15: every username that is a key of the user registry or of the
\* engagement totals is the author of a cast processed so far; a username
\* that only occurs as a mention target is a key of neither.
C15_KeysAreAuthors ==
    /\ \A u \in DOMAIN user_database : AuthoredBy(u, EverSaved) # {}
    /\ \A u \in DOMAIN engagement_metrics : AuthoredBy(u, EverTracked) # {}
    /\ \A k \in DOMAIN edge_database :
          AuthoredBy(edge_database[k].to, EverSaved) = {} =>
              /\ edge_database[k].to \notin DOMAIN user_database
              /\ edge_database[k].to \notin DOMAIN engagement_metrics

\* A cast of al mentioned bob and cy, who authored nothing: al is the only
\* key of both maps.
C15_Witness ==
    /\ runs = 1 /\ pc = "returned" /\ Len(data) = 1
    /\ data[1].author.username = al
    /\ Len(edge_database) = 2
    /\ edge_database[1].to = bob /\ edge_database[2].to = cy
    /\ DOMAIN user_database = {al}
    /\ DOMAIN engagement_metrics = {al}

\* Casts of the current run that process_edge_relationships has handled.
EdgedItems == IF pc = "engage" THEN idx ELSE idx - 1

\* The name of the mention that starts at position i: the longest run of
\* name characters behind the "@".
NameAt(text, i) ==
    LET last == CHOOSE e \in (i + 1)..Len(text) :
                    /\ \A m \in (i + 1)..e : IsNameChar(text[m])
                    /\ e = Len(text) \/ ~IsNameChar(text[e + 1])
    IN  SubSeq(text, i + 1, last)

\* The elements of a set of numbers in ascending order.
Ascending(S) ==
    [j \in 1..Cardinality(S) |->
        CHOOSE x \in S : Cardinality({y \in S : y < x}) = j - 1]

\* <<timestamp, from, to>> of the edges of one cast, left to right.
EdgeKeysOf(cast) ==
    LET starts == Ascending(MentionStarts(cast.text))
    IN  [j \in DOMAIN starts |->
            <<cast.timestamp, cast.author.username, NameAt(cast.text, starts[j])>>]

\* <<timestamp, from, to>> of the edges of the first n casts of data.
RECURSIVE EdgeKeysUpTo(_)
EdgeKeysUpTo(n) ==
    IF n = 0 THEN <<>> ELSE EdgeKeysUpTo(n - 1) \o EdgeKeysOf(data[n])

EdgeListOrdered ==
    [k \in DOMAIN edge_database |->
        <<edge_database[k].timestamp, edge_database[k].from, edge_database[k].to>>]
    = EdgeKeysUpTo(EdgedItems)

\* C16: every step leaves the previous edge list as an unchanged prefix of
\* the new one, and in the first run on a fresh object the list is, cast
\* by cast in input order, the mentions of each cast from left to right,
\* each edge with the timestamp and author of its cast.
C16_EdgesAppendOnly ==
    [][/\ Len(edge_database) <= Len(edge_database')
       /\ SubSeq(edge_database', 1, Len(edge_database)) = edge_database
       /\ runs' <= 1 => EdgeListOrdered']_vars

\* "yo @al callout" (timestamp 2000) before "@bob hi @cy" (timestamp 1000):
\* three edges in input order, not in timestamp order.
C16_Witness ==
    /\ runs = 1 /\ pc = "returned" /\ Len(data) = 2
    /\ Len(edge_database) = 3
    /\ edge_database[1].to = al /\ edge_database[1].timestamp = 2000
    /\ edge_database[2].to = bob /\ edge_database[2].timestamp = 1000
    /\ edge_database[3].to = cy /\ edge_database[3].timestamp = 1000

\* C20: save_to_user_database changes the user registry only,
\* process_edge_relationships the edge list only, track_engagement the
\* engagement totals only; none changes the record it is given or the
\* fetched list.
C20_AccumulatorsIndependent ==
    [][/\ pc = "save" =>
             UNCHANGED <<edge_database, engagement_metrics, data, parsed_data>>
       /\ pc = "edges" =>
             UNCHANGED <<user_database, engagement_metrics, data, parsed_data>>
       /\ pc = "engage" =>
             UNCHANGED <<user_database, edge_database, data, parsed_data>>]_vars

\* A cast with two mentions went through the three accumulators and each
\* holds its part.
C20_Witness ==
    /\ runs = 1 /\ pc = "normalize" /\ idx = 2
    /\ user_database[data[1].author.username].msg_count = 1
    /\ Len(edge_database) = 2
    /\ engagement_metrics[data[1].author.username].likes = 5
    /\ parsed_data[1].text = data[1].text

\* ---------------------------------------------------------------------
\* download_data.py
\* ---------------------------------------------------------------------

\* Channel dictionaries as get_all_channels returns them over time: the
\* same id, renamed since and then without a publicCasting key.
ChannelsJson ==
    { [id |-> "dev", name |-> "Dev", publicCasting |-> TRUE],
      [id |-> "dev", name |-> "Developers"] }

ChannelIds == {c.id : c \in ChannelsJson}

\* The followedAt the server reports for its followers while the script
\* goes through its n-th channel: a follower met again in a later pass has
\* followed anew since.
FollowedAt(n) == 1742090574 + n

\* SQLDatabase.insert_channel: the row of a channel whose id is not yet in
\* the table (of the fourteen columns, the model keeps id, name and
\* publicCasting; the others are copied like name).
insert_channel(table, channel) ==
    IF channel.id \in DOMAIN table
    THEN table
    ELSE Put(table, channel.id,
             [name |-> channel.name,
              publicCasting |->
                  IF Get(channel, "publicCasting", FALSE) THEN 1 ELSE 0])

\* INSERT OR REPLACE INTO followers_<channel_id>, row by row.
RECURSIVE insert_rows_replace(_, _)
insert_rows_replace(table, rows) ==
    IF rows = <<>>
    THEN table
    ELSE insert_rows_replace(
             Put(table, rows[1].fid, rows[1].followedAt),
             Tail(rows))

\* INSERT OR IGNORE INTO followers_<channel_id>, row by row as executemany
\* runs it: a row whose fid is in the table already is dropped.
RECURSIVE insert_rows(_, _)
insert_rows(table, rows) ==
    IF rows = <<>>
    THEN table
    ELSE insert_rows(
             IF rows[1].fid \in DOMAIN table
             THEN table
             ELSE Put(table, rows[1].fid, rows[1].followedAt),
             Tail(rows))

\* SQLDatabase.insert_followers_batch: create_followers_table (CREATE TABLE
\* IF NOT EXISTS), then the rows.
insert_followers_batch(tables, id, batch_followers) ==
    Put(tables, id, insert_rows(Get(tables, id, EmptyDict), batch_followers))

\* WarpAPI.get_channel_followers, line 62.
delays == <<3, 5, 10, 60>>

\* Gives up one attempt early.
may_retry_fewer(n) == n < Len(delays) - 1

\* "if attempt < len(delays)".
may_retry(n) == n < Len(delays)

\* Always the first delay.
wait_time_first(n) == delays[1]

\* "wait_time = delays[attempt]" (Python counts from 0).
wait_time(n) == delays[n + 1]

\* The n followers the server returns next in this fetch: fids in the
\* server's order, each with the followedAt of this fetch.
ServerPage(n) ==
    [i \in 1..n |-> [fid |-> Len(served) + i, followedAt |-> FollowedAt(visited)]]

NoPage == [followers |-> <<>>, next_cursor |-> 0]

\* One iteration of "for channel in channels[2:]": insert_channel, then the
\* call of fetch_and_insert_followers_in_batches up to its first
\* requests.get, with the batch_size the script passes in every iteration.
\* A second iteration with the same id is a second run of the script on the
\* same channels.db.
StartChannel ==
    /\ dpc \in {"idle", "done"}
    /\ visited < MaxChannels
    /\ \E channel \in ChannelsJson, size \in 1..MaxBatchSize :
          /\ channels' = insert_channel(channels, channel)
          /\ channel_id' = channel.id
          /\ visited > 0 => size = batch_size
          /\ batch_size' = size
    /\ visited' = visited + 1
    /\ cursor' = 0
    /\ batch' = <<>>
    /\ page' = NoPage
    /\ attempt' = 0
    /\ requests' = 0
    /\ slept' = <<>>
    /\ served' = <<>>
    /\ pages' = 0
    /\ inserted' = <<>>
    /\ dpc' = "request"
    /\ UNCHANGED followers_tables
    /\ UNCHANGED wvars

\* get_channel_followers with the caller inserting its pending batch before
\* the error goes on (a try/finally that the code does not have).
RequestFails_flushes ==
    /\ dpc = "request"
    /\ requests' = requests + 1
    /\ IF attempt < Len(delays)
       THEN /\ slept' = Append(slept, delays[attempt + 1])
            /\ attempt' = attempt + 1
            /\ dpc' = "request"
            /\ UNCHANGED <<followers_tables, inserted>>
       ELSE /\ dpc' = "failed"
            /\ followers_tables' =
                  IF batch # <<>>
                  THEN insert_followers_batch(followers_tables, channel_id, batch)
                  ELSE followers_tables
            /\ inserted' =
                  IF batch # <<>>
                  THEN Append(inserted, [followers |-> batch, final |-> TRUE])
                  ELSE inserted
            /\ UNCHANGED <<slept, attempt>>
    /\ UNCHANGED <<channels, visited, channel_id, batch_size, cursor, batch,
                   page, served, pages>>
    /\ UNCHANGED wvars

\* requests.get or raise_for_status raises RequestException: sleep and try
\* again while attempt < len(delays), else raise; main has no handler, the
\* script ends.
RequestFails ==
    /\ dpc = "request"
    /\ requests' = requests + 1
    /\ IF may_retry(attempt)
       THEN /\ slept' = Append(slept, wait_time(attempt))
            /\ attempt' = attempt + 1
            /\ dpc' = "request"
       ELSE /\ dpc' = "failed"
            /\ UNCHANGED <<slept, attempt>>
    /\ UNCHANGED <<channels, followers_tables, visited, channel_id,
                   batch_size, cursor, batch, page, served, pages, inserted>>
    /\ UNCHANGED wvars

\* requests.get succeeds: get_channel_followers returns the page's followers
\* and its next cursor (0 stands for None).
RequestSucceeds ==
    /\ dpc = "request"
    /\ requests' = requests + 1
    /\ \E n \in 0..MaxPageLen, more \in BOOLEAN :
          /\ more => pages + 1 < MaxPages
          /\ page' = [followers |-> ServerPage(n),
                      next_cursor |-> IF more THEN pages + 1 ELSE 0]
          /\ served' = served \o ServerPage(n)
    /\ pages' = pages + 1
    /\ dpc' = "page"
    /\ UNCHANGED <<channels, followers_tables, visited, channel_id,
                   batch_size, cursor, batch, attempt, slept, inserted>>
    /\ UNCHANGED wvars

\* "if len(batch) >= batch_size" read as "if len(batch) == batch_size".
batch_is_full_exact(b, size) == Len(b) = size

\* "if len(batch) >= batch_size".
batch_is_full(b, size) == Len(b) >= size

\* Lines 98-116 without lines 112-115: what is left in the batch when the
\* page has no cursor is not inserted.
ProcessPage_drops_rest ==
    /\ dpc = "page"
    /\ LET extended == IF page.followers # <<>>
                       THEN batch \o page.followers
                       ELSE batch
           full == page.followers # <<>> /\ Len(extended) >= batch_size
           kept == IF full THEN <<>> ELSE extended
           last == page.next_cursor = 0
       IN  /\ cursor' = page.next_cursor
           /\ batch' = kept
           /\ inserted' = inserted \o
                 (IF full
                  THEN <<[followers |-> extended, final |-> FALSE]>>
                  ELSE <<>>)
           /\ followers_tables' =
                 IF full
                 THEN insert_followers_batch(followers_tables, channel_id,
                                             extended)
                 ELSE followers_tables
           /\ IF last
              THEN /\ dpc' = "done"
                   /\ UNCHANGED <<attempt, requests, slept>>
              ELSE /\ dpc' = "request"
                   /\ attempt' = 0
                   /\ requests' = 0
                   /\ slept' = <<>>
    /\ UNCHANGED <<channels, visited, channel_id, batch_size, page,
                   served, pages>>
    /\ UNCHANGED wvars

\* Lines 98-116 of fetch_and_insert_followers_in_batches with the page that
\* get_channel_followers returned: extend the batch, insert it when it is
\* full, insert what is left when the page has no cursor and return;
\* otherwise call get_channel_followers again.
ProcessPage ==
    /\ dpc = "page"
    /\ LET extended == IF page.followers # <<>>
                       THEN batch \o page.followers
                       ELSE batch
           full == page.followers # <<>> /\ batch_is_full(extended, batch_size)
           kept == IF full THEN <<>> ELSE extended
           last == page.next_cursor = 0
           first_insert == IF full
                           THEN <<[followers |-> extended, final |-> FALSE]>>
                           ELSE <<>>
           final_insert == IF last /\ kept # <<>>
                           THEN <<[followers |-> kept, final |-> TRUE]>>
                           ELSE <<>>
           after_first == IF full
                          THEN insert_followers_batch(followers_tables,
                                                      channel_id, extended)
                          ELSE followers_tables
       IN  /\ cursor' = page.next_cursor
           /\ batch' = kept
           /\ inserted' = inserted \o first_insert \o final_insert
           /\ followers_tables' =
                 IF last /\ kept # <<>>
                 THEN insert_followers_batch(after_first, channel_id, kept)
                 ELSE after_first
           /\ IF last
              THEN /\ dpc' = "done"
                   /\ UNCHANGED <<attempt, requests, slept>>
              ELSE /\ dpc' = "request"
                   /\ attempt' = 0
                   /\ requests' = 0
                   /\ slept' = <<>>
    /\ UNCHANGED <<channels, visited, channel_id, batch_size, page,
                   served, pages>>
    /\ UNCHANGED wvars

NextDownload ==
    \/ StartChannel
    \/ RequestFails
    \/ RequestSucceeds
    \/ ProcessPage

\* Each requests.get comes to an end, with a response or with an exception,
\* and the script goes on with what it received.
SpecDownload ==
    /\ Init
    /\ [][NextDownload]_vars
    /\ WF_vars(RequestFails \/ RequestSucceeds)
    /\ WF_vars(ProcessPage)

IsSuffix(s, t) ==
    /\ Len(s) <= Len(t)
    /\ \A i \in 1..Len(s) : s[i] = t[Len(t) - Len(s) + i]

\* Where a call of get_channel_followers stands: in its loop, returned, or
\* raised.
InCall == dpc = "request"
Returned == dpc \in {"page", "done"}
Raised == dpc = "failed"

RetrySchedule ==
    /\ attempt <= 4
    /\ slept = SubSeq(<<3, 5, 10, 60>>, 1, attempt)
    /\ requests <= 5
    /\ InCall => requests = attempt
    /\ Returned => /\ requests = attempt + 1
                   /\ IsSuffix(page.followers, served)
                   /\ page.next_cursor \in {0, pages}
    /\ Raised => /\ requests = 5
                 /\ slept = <<3, 5, 10, 60>>

\* C17: get_channel_followers sleeps 3, 5, 10, 60 seconds in that order
\* between failing requests. Every request but the last one of a call has
\* failed and was followed by the next delay; a call that returned did so
\* with the page of its last request, a call that raised had made five
\* requests and slept all four delays, no call makes more than five, and
\* every call returns or raises in the end.
C17_RetrySchedule ==
    /\ []RetrySchedule
    /\ InCall ~> (Returned \/ Raised)

\* The fifth request succeeds after all four delays.
C17_Witness ==
    /\ Returned
    /\ requests = 5
    /\ slept = <<3, 5, 10, 60>>
    /\ page.followers # <<>>

\* C18 (as stated): every batch given to insert_followers_batch holds
\* batch_size followers, except the last one of the fetch, which may hold
\* fewer. The code inserts the whole batch once it has reached batch_size,
\* so a batch grows past batch_size by up to a page.
C18_BatchesOfBatchSize ==
    \A k \in DOMAIN inserted :
        \/ Len(inserted[k].followers) = batch_size
        \/ /\ k = Len(inserted)
           /\ Len(inserted[k].followers) < batch_size

\* The batches given to insert_followers_batch by the step at hand.
NewBatches ==
    IF IsPrefix(inserted, inserted')
    THEN SubSeq(inserted', Len(inserted) + 1, Len(inserted'))
    ELSE <<>>

NewFids ==
    UNION { {b.followers[i].fid : i \in DOMAIN b.followers} :
            b \in Range(NewBatches) }

\* C19: database inserts do not duplicate. No step changes or removes a row
\* that is in the channels table or in a followers table already: a channel
\* whose id is present is skipped, whatever its other fields, and a follower
\* whose fid is present keeps the followedAt stored first. A step adds to a
\* followers table the fids of the batches it inserts and nothing else, and
\* inserting any of these batches once more leaves the tables as they are.
C19_NoDuplicateInserts ==
    [][/\ \A id \in DOMAIN channels :
              id \in DOMAIN channels' /\ channels'[id] = channels[id]
       /\ \A c \in ChannelsJson :
              c.id \in DOMAIN channels' => insert_channel(channels', c) = channels'
       /\ \A id \in DOMAIN followers_tables :
              /\ id \in DOMAIN followers_tables'
              /\ \A fid \in DOMAIN followers_tables[id] :
                     /\ fid \in DOMAIN followers_tables'[id]
                     /\ followers_tables'[id][fid] = followers_tables[id][fid]
       /\ \A k \in DOMAIN NewBatches :
              /\ \A i \in DOMAIN NewBatches[k].followers :
                     LET follower == NewBatches[k].followers[i]
                         before == Get(followers_tables, channel_id, EmptyDict)
                     IN  /\ follower.fid \in DOMAIN followers_tables'[channel_id]
                         /\ follower.fid \notin DOMAIN before =>
                                followers_tables'[channel_id][follower.fid]
                                    = follower.followedAt
              /\ insert_followers_batch(followers_tables', channel_id,
                                        NewBatches[k].followers)
                     = followers_tables'
       /\ \A id \in DOMAIN followers_tables' :
              DOMAIN followers_tables'[id] =
                  DOMAIN Get(followers_tables, id, EmptyDict)
                      \cup (IF id = channel_id THEN NewFids ELSE {})
      ]_vars

\* The script has gone through the channel a second time: the followers of
\* the first pass came back with a later followedAt and were inserted again.
C19_Witness ==
    /\ dpc = "done"
    /\ visited = 2
    /\ DOMAIN channels = {"dev"}
    /\ Len(inserted) = 2
    /\ \A k \in DOMAIN inserted :
           \A i \in DOMAIN inserted[k].followers :
               LET follower == inserted[k].followers[i]
               IN  followers_tables["dev"][follower.fid] < follower.followedAt

\* The followers given to insert_followers_batch in this fetch, in the
\* order of the calls.
InsertedFollowers ==
    Concat([k \in DOMAIN inserted |-> inserted[k].followers])

\* C21: when fetch_and_insert_followers_in_batches returns, the followers
\* given to insert_followers_batch, batch after batch, are the followers of
\* the fetched pages in fetch order, each one once, so none is left in a
\* batch that was not inserted; the step that returns is the one on a page
\* without a cursor, and a page with a cursor and no followers leads to the
\* next request.
C21_AllFetchedInserted ==
    [][/\ dpc' = "done" => /\ InsertedFollowers' = served'
                           /\ page'.next_cursor = 0
                           /\ \/ batch' = <<>>
                              \/ /\ inserted' # <<>>
                                 /\ batch' = inserted'[Len(inserted')].followers
       /\ (dpc = "page" /\ page.next_cursor # 0) =>
              /\ dpc' = "request"
              /\ cursor' = page.next_cursor
              /\ page.followers = <<>> => UNCHANGED <<batch, inserted>>
      ]_vars

\* The first page had a cursor and no followers; the fetch went on to the
\* second page and returned with its followers inserted.
C21_Witness ==
    /\ dpc = "done"
    /\ pages = 2
    /\ page.followers # <<>>
    /\ served = page.followers
    /\ InsertedFollowers = served

FidsOf(rows) == {rows[i].fid : i \in DOMAIN rows}

\* C22: when get_channel_followers raises inside
\* fetch_and_insert_followers_in_batches, the error leaves the script: no
\* step follows. The step that raises inserts nothing; the followers fetched
\* so far are those of the inserted batches followed by the pending batch,
\* which holds fewer than batch_size followers and is never inserted. In the
\* first pass over a database file the followers table holds the followers of
\* the inserted batches and none of the pending ones.
C22_PendingBatchLost ==
    [][/\ dpc # "failed"
       /\ dpc' = "failed" =>
              /\ UNCHANGED <<followers_tables, inserted, batch, channels>>
              /\ requests' = Len(delays) + 1
              /\ served' = InsertedFollowers' \o batch'
              /\ Len(batch') < batch_size'
              /\ \A k \in DOMAIN inserted' : ~inserted'[k].final
              /\ visited' = 1 =>
                     /\ DOMAIN Get(followers_tables', channel_id', EmptyDict)
                            = FidsOf(InsertedFollowers')
                     /\ FidsOf(batch') \cap
                            DOMAIN Get(followers_tables', channel_id', EmptyDict)
                            = {}
      ]_vars

\* All five requests for the second page failed while a follower of the
\* first page was waiting in the batch.
C22_Witness ==
    /\ dpc = "failed"
    /\ pages = 1
    /\ batch # <<>>
    /\ visited = 1
    /\ inserted = <<>>
    /\ "dev" \notin DOMAIN followers_tables

====
